---- MODULE Spec2Model ----
(***************************************************************************)
(* Backup reconciliation handler of kube-arangodb                          *)
(* (pkg/backup/handlers/arango/backup/handler.go).                         *)
(*                                                                         *)
(* Tasks: the periodic Refresher (task 0, handler.start/refresh) and the   *)
(* concurrently dispatched Event Handler invocations (tasks 1..NumHandlers,*)
(* handler.Handle).  Every blocking call (store call, driver call, mutex   *)
(* acquisition) is one step; local computation is merged into the step of  *)
(* the call that precedes it.                                              *)
(***************************************************************************)
EXTENDS Integers, Sequences, FiniteSets, TLC

(***************************************************************************)
(* Bounds of the model.                                                    *)
(***************************************************************************)
NumHandlers == 2
NumUser     == 1
MaxCreated  == 2
MaxFaults   == 1
MaxInvocations == 3

\* Variant: the retry budget is one attempt short.
RetryAttemptsOff == 25 - 1

(***************************************************************************)
(* Program constant: utils.Retry(25, time.Second, ...).                    *)
(***************************************************************************)
RetryAttempts == 25

Refresher == 0
Handlers  == 1..NumHandlers
Tasks     == 0..NumHandlers

UserNames == 1..NumUser
GenNames  == (NumUser + 1)..(NumUser + MaxCreated)
Names     == UserNames \cup GenNames
NoName    == 0

Namespace      == "ns"
DeploymentList == <<"d1", "d2">>
Deployments    == {DeploymentList[i] : i \in DOMAIN DeploymentList}
NoDep          == ""
PhysIds        == {"x"}
NoId           == "none"
NoOrigin       == <<"none", "none">>

None      == -1
NoMutex   == <<<<"none", "none">>, 0>>
NoKey     == <<"none", "none">>
Unlimited == -1

(***************************************************************************)
(* LifecycleState: the closed enumeration, "" being the zero value of a    *)
(* freshly created resource.  "Unknown" stands for any string outside the  *)
(* enumeration (the field is a plain string in the stored object).         *)
(***************************************************************************)
States == {"", "Pending", "Scheduled", "Uploading", "Ready", "Failed", "Deleted"}

ArangoBackupStateMap ==
    [s \in States |->
        CASE s = ""          -> {"Pending"}
          [] s = "Pending"   -> {"Scheduled", "Failed"}
          [] s = "Scheduled" -> {"Ready", "Failed"}
          [] s = "Uploading" -> {"Ready", "Failed"}
          [] s = "Ready"     -> {"Uploading", "Deleted", "Failed"}
          [] s = "Deleted"   -> {"Ready", "Failed"}
          [] s = "Failed"    -> {"Pending"}]

\* Transit(from, to): nil (TRUE) iff the move is a self-loop or an edge.
Transit(from, to) ==
    \/ from = to
    \/ from \in States /\ to \in ArangoBackupStateMap[from]

\* States that have a handler registered in the dispatch table.
stateHolders == States

EmptyStatus ==
    [state |-> "", backup |-> NoId, imported |-> FALSE, available |-> FALSE, msg |-> ""]

NoRes == [dep |-> "absent"]

\* backup.Validate(): the deployment reference must be set.
Validate(bk) == bk.dep # NoDep

\* createFailedState(err, status): the status moved to Failed with the message.
createFailedState(st) == [st EXCEPT !.state = "Failed", !.msg = "err"]

\* The candidate statuses a state handler may return for the fetched object:
\* any state of the enumeration; a descriptor, once there, is kept, and a
\* resource without one gets it on reaching Ready; a Ready backup is
\* available or not, as the driver reports it.
Candidates(bk) ==
    {[state     |-> c[1],
      backup    |-> c[2],
      imported  |-> bk.status.imported,
      available |-> c[3],
      msg       |-> IF c[1] = "Failed" THEN "err" ELSE ""] :
        c \in {p \in States \X ({NoId} \cup PhysIds) \X BOOLEAN :
                 /\ IF bk.status.backup # NoId THEN p[2] = bk.status.backup
                    ELSE (p[2] # NoId) = (p[1] = "Ready")
                 /\ p[3] => (p[1] = "Ready" /\ p[2] # NoId)}}

\* fmt.Sprintf("%s/%s", namespace, deployment)
MutexKey(namespace, deployment) == <<namespace, deployment>>

VARIABLES
    store,        \* resource store: name -> BackupResource or NoRes
    physical,     \* driver-reported physical backups per deployment
    faults,       \* upstream failures that may still be injected
    enabled,      \* tasks the runtime schedules
    created,      \* number of resources the Refresher has created
    started,      \* number of invocations (items delivered, ticks) so far
    hlock,        \* h.lock: holder of the registry guard, or None
    locks,        \* h.locks: key -> mutex
    holder,       \* mutex -> task holding it, or None
    loc           \* per task: position, local variables, record of the invocation

vars == <<store, physical, faults, enabled, created, started, hlock, locks, holder, loc>>

envVars == <<physical, enabled>>
runVars == <<physical, enabled, started>>
regVars == <<hlock, locks>>

NoRet == [path |-> "", err |-> ""]

\* No record of a previous invocation.
NoPrev == [item |-> NoName, path |-> "", owned |-> FALSE]

(***************************************************************************)
(* The locals of a task.  b is the object Handle fetched (or the object    *)
(* the Refresher created), fresh the one updateBackupStatus fetched;       *)
(* staleB/staleU tell that the store holds a newer resource version than   *)
(* the copy.  deps is the rest of deployments.Items (its head is under     *)
(* scan), listed what was read of backups.Items, phys the rest of          *)
(* existingBackups.  The n* fields count the calls of the invocation:      *)
(* Update calls, UpdateStatus calls, EnqueueItem calls; dispatched tells   *)
(* that the dispatch table was consulted, owned that the owner link was    *)
(* there when the candidate was computed; events are the notifications    *)
(* the invocation has emitted, time the Time of the status it hands to     *)
(* updateBackupStatus; prev is what is remembered of the task's previous   *)
(* invocation.                                                             *)
(***************************************************************************)
Idle ==
    [pc |-> "idle", item |-> NoName, b |-> NoRes, staleB |-> FALSE,
     fresh |-> NoRes, staleU |-> FALSE, key |-> NoKey, found |-> FALSE,
     mtx |-> NoMutex, att |-> 0, lastErr |-> "", ret |-> NoRet,
     deps |-> <<>>, listed |-> {}, phys |-> {},
     nUpdate |-> 0, nStatus |-> 0, nRequeue |-> 0, dispatched |-> FALSE,
     fetchedState |-> "", candState |-> "", owned |-> FALSE,
     events |-> <<>>, time |-> "", prev |-> NoPrev]

\* The task after its invocation has returned e on the given path.
Returned(l, path, e) ==
    [Idle EXCEPT !.pc = "done", !.item = l.item,
                 !.ret = [path |-> path, err |-> e],
                 !.att = l.att, !.lastErr = l.lastErr,
                 !.nUpdate = l.nUpdate, !.nStatus = l.nStatus,
                 !.nRequeue = l.nRequeue, !.dispatched = l.dispatched,
                 !.fetchedState = l.fetchedState, !.candState = l.candState,
                 !.owned = l.owned, !.events = l.events, !.time = l.time,
                 !.prev = l.prev]

CanFail == faults # 0
Consume == IF faults > 0 THEN faults - 1 ELSE faults

\* A resource as an external request creates it.
UserResource(d, dl, s) ==
    [dep |-> d, download |-> dl, fin |-> FALSE, owner |-> FALSE, del |-> FALSE,
     status |-> [EmptyStatus EXCEPT !.state = s], origin |-> NoOrigin]

\* The resources external requests have created: of any deployment or of
\* none, with or without download request, in the zero or in a foreign state.
UserResources ==
    {UserResource(d, NoId, "") : d \in Deployments \cup {NoDep}}
        \cup {UserResource(DeploymentList[1], x, "") : x \in PhysIds}
        \cup {[UserResource(DeploymentList[1], NoId, s) EXCEPT !.fin = TRUE, !.owner = TRUE] :
                 s \in {"Unknown", "Pending"}}

InitStore ==
    /\ \E u \in [UserNames -> UserResources] :
         store = [n \in Names |-> IF n \in UserNames THEN u[n] ELSE NoRes]
    /\ physical = [d \in Deployments |-> IF d = DeploymentList[1] THEN PhysIds ELSE {}]
    /\ created = 0
    /\ started = 0

InitTasks ==
    /\ hlock = None
    /\ locks = <<>>
    /\ holder = <<>>
    /\ loc = [t \in Tasks |-> Idle]

Init ==
    /\ InitStore
    /\ InitTasks
    /\ faults = MaxFaults
    /\ enabled = Tasks

(***************************************************************************)
(* Store bookkeeping.  A write of resource r gives it a new resource       *)
(* version: a copy fetched before the write and still to be written back   *)
(* is stale afterwards.                                                    *)
(***************************************************************************)
UsesB == {"finalize", "addfin", "gm_enter", "gm_exit", "lock", "owner_get", "owner_upd"}

Staled(l, r) ==
    [l EXCEPT !.staleB = @ \/ (l.item = r /\ l.pc \in UsesB),
              !.staleU = @ \/ (l.item = r /\ l.pc = "u_put"),
              !.prev = IF @.item = r THEN NoPrev ELSE @]

\* Task t moves to l without a write to the store.
Step(t, l) == loc' = [loc EXCEPT ![t] = l]

\* Task t moves to l and has written resource r.
StepWrite(t, l, r) == loc' = [u \in Tasks |-> IF u = t THEN l ELSE Staled(loc[u], r)]

\* The result of a write of resource r from a copy that is stale or not.
WriteError(r, isStale) ==
    IF store[r] = NoRes THEN "NotFound" ELSE IF isStale THEN "Conflict" ELSE "nil"

\* The deferred lock.Unlock() / m.Unlock().
\* Variant: the return leaves the mutex locked.
UnlockedNot(t) == holder

Unlocked(t) == [holder EXCEPT ![loc[t].mtx] = None]

\* A return is local to its task: it is taken before any other step, so the
\* other steps are taken with no task about to return.
Running == \A t \in Tasks : loc[t].pc # "done"

(***************************************************************************)
(* handler.Handle                                                          *)
(***************************************************************************)
\* Where Handle goes after a successful Get: finalize, finalizer attachment,
\* or the locked section.
\* Variant: the deletion marker is not looked at.
AfterGetNoDeletionCheck(bk) ==
    IF ~bk.fin THEN "addfin"
    ELSE "gm_enter"

\* Variant: a missing finalizer does not end the invocation.
AfterGetNoFinalizerCheck(bk) ==
    IF bk.del THEN "finalize"
    ELSE "gm_enter"

AfterGet(bk) ==
    IF bk.del THEN "finalize"
    ELSE IF ~bk.fin THEN "addfin"
    ELSE "gm_enter"

\* The work queue delivers an item; Handle fetches the resource.
HandleGet(t) ==
    /\ t \in Handlers /\ t \in enabled
    /\ loc[t].pc = "idle"
    /\ Running
    /\ started < MaxInvocations
    /\ started' = started + 1
    /\ \E r \in Names :
        LET l == [loc[t] EXCEPT !.item = r] IN
        \/ /\ CanFail
           /\ faults' = Consume
           /\ Step(t, Returned(l, "get", "Upstream"))
        \/ /\ store[r] = NoRes
           /\ Step(t, Returned(l, "notfound", "nil"))
           /\ UNCHANGED faults
        \/ /\ store[r] # NoRes
           /\ Step(t, [l EXCEPT !.b = store[r],
                                !.fetchedState = store[r].status.state,
                                !.key = MutexKey(Namespace, store[r].dep),
                                !.pc = AfterGet(store[r])])
           /\ UNCHANGED faults
    /\ UNCHANGED <<store, envVars, created, regVars, holder>>

\* h.finalize(b): cleanup, then an Update that strips the finalizer; the store
\* removes a resource that has a deletion marker and no finalizer left.
HandleFinalize(t) ==
    /\ loc[t].pc = "finalize"
    /\ Running
    /\ LET l == [loc[t] EXCEPT !.nUpdate = @ + 1]
           e == WriteError(l.item, l.staleB)
       IN \/ /\ CanFail
             /\ faults' = Consume
             /\ Step(t, Returned(l, "finalize", "Upstream"))
             /\ UNCHANGED store
          \/ /\ e # "nil"
             /\ Step(t, Returned(l, "finalize", e))
             /\ UNCHANGED <<store, faults>>
          \/ /\ e = "nil"
             /\ store' = [store EXCEPT ![l.item] = NoRes]
             /\ StepWrite(t, Returned(l, "finalize", "nil"), l.item)
             /\ UNCHANGED faults
    /\ UNCHANGED <<runVars, created, regVars, holder>>

\* b.Finalizers = appendFinalizers(b); Update(b); return.
HandleAddFinalizer(t) ==
    /\ loc[t].pc = "addfin"
    /\ Running
    /\ LET l == [loc[t] EXCEPT !.nUpdate = @ + 1, !.b.fin = TRUE]
           e == WriteError(l.item, l.staleB)
       IN \/ /\ CanFail
             /\ faults' = Consume
             /\ Step(t, Returned(l, "addfin", "Upstream"))
             /\ UNCHANGED store
          \/ /\ e # "nil"
             /\ Step(t, Returned(l, "addfin", e))
             /\ UNCHANGED <<store, faults>>
          \/ /\ e = "nil"
             /\ store' = [store EXCEPT ![l.item] = l.b]
             /\ StepWrite(t, Returned(l, "addfin", "nil"), l.item)
             /\ UNCHANGED faults
    /\ UNCHANGED <<runVars, created, regVars, holder>>

(***************************************************************************)
(* handler.getDeploymentMutex: h.lock.Lock() and the map lookup; then the  *)
(* creation of a missing mutex and the return with the deferred            *)
(* h.lock.Unlock().                                                        *)
(***************************************************************************)
\* h.lock.Lock() can be taken.
\* Variant: the registry is read and written without its guard.
GuardFreeIgnored == TRUE

GuardFree == hlock = None

GmEnter(t) ==
    /\ loc[t].pc = "gm_enter"
    /\ Running
    /\ GuardFree
    /\ hlock' = t
    /\ Step(t, [loc[t] EXCEPT !.found = loc[t].key \in DOMAIN locks, !.pc = "gm_exit"])
    /\ UNCHANGED <<store, faults, runVars, created, locks, holder>>

\* The deferred h.lock.Unlock(): the guard after getDeploymentMutex returned.
\* Variant: the guard stays with the caller.
GuardKept(t) == t

GuardReleased(t) == None

GmExit(t) ==
    /\ loc[t].pc = "gm_exit"
    /\ Running
    /\ LET new == <<loc[t].key, Cardinality({m \in DOMAIN holder : m[1] = loc[t].key}) + 1>>
           map == IF loc[t].found THEN locks ELSE (loc[t].key :> new) @@ locks
       IN /\ locks' = map
          /\ holder' = IF loc[t].found THEN holder ELSE holder @@ (new :> None)
          /\ Step(t, [loc[t] EXCEPT !.mtx = map[loc[t].key], !.found = FALSE,
                                    !.pc = "lock"])
    /\ hlock' = GuardReleased(t)
    /\ UNCHANGED <<store, faults, runVars, created>>

\* lock.Lock() in Handle, m.Lock() in refreshDeployment.
MutexLock(t) ==
    /\ loc[t].pc = "lock"
    /\ Running
    /\ holder[loc[t].mtx] = None
    /\ holder' = [holder EXCEPT ![loc[t].mtx] = t]
    /\ Step(t, IF t = Refresher THEN [loc[t] EXCEPT !.pc = "r_list"]
                ELSE IF loc[t].b.owner
                     THEN [loc[t] EXCEPT !.pc = "process", !.staleB = FALSE]
                     ELSE [loc[t] EXCEPT !.pc = "owner_get"])
    /\ UNCHANGED <<store, faults, runVars, created, regVars>>

\* Get of the referenced deployment; a failure is swallowed.
HandleOwnerGet(t) ==
    /\ loc[t].pc = "owner_get"
    /\ Running
    /\ \/ /\ CanFail
          /\ faults' = Consume
          /\ Step(t, [loc[t] EXCEPT !.pc = "process", !.staleB = FALSE])
       \/ /\ loc[t].b.dep \notin Deployments
          /\ Step(t, [loc[t] EXCEPT !.pc = "process", !.staleB = FALSE])
          /\ UNCHANGED faults
       \/ /\ loc[t].b.dep \in Deployments
          /\ Step(t, [loc[t] EXCEPT !.b.owner = TRUE, !.pc = "owner_upd"])
          /\ UNCHANGED faults
    /\ UNCHANGED <<store, runVars, created, regVars, holder>>

\* Update(b) with the owner reference attached; an error ends the invocation.
HandleOwnerUpdate(t) ==
    /\ loc[t].pc = "owner_upd"
    /\ Running
    /\ LET l == [loc[t] EXCEPT !.nUpdate = @ + 1]
           e == WriteError(l.item, l.staleB)
       IN \/ /\ CanFail
             /\ faults' = Consume
             /\ Step(t, Returned(l, "owner", "Upstream"))
             /\ holder' = Unlocked(t)
             /\ UNCHANGED store
          \/ /\ e # "nil"
             /\ Step(t, Returned(l, "owner", e))
             /\ holder' = Unlocked(t)
             /\ UNCHANGED <<store, faults>>
          \/ /\ e = "nil"
             /\ store' = [store EXCEPT ![l.item] = l.b]
             /\ StepWrite(t, [l EXCEPT !.pc = "process"], l.item)
             /\ UNCHANGED <<faults, holder>>
    /\ UNCHANGED <<runVars, created, regVars>>

(***************************************************************************)
(* Handle, lines 292-332: the candidate status against the fetched one.    *)
(* "noop": reflect.DeepEqual holds; "illegal": Transit returns an error;   *)
(* "write": the candidate goes to updateBackupStatus.                      *)
(***************************************************************************)
\* Variant: the legality graph is not asked.
StatusDecisionNoTransit(bk, status) ==
    IF status = bk.status THEN "noop"
    ELSE "write"

StatusDecision(bk, status) ==
    IF status = bk.status THEN "noop"
    ELSE IF ~Transit(bk.status.state, status.state) THEN "illegal"
    ELSE "write"

\* h.operator.EnqueueItem(item) runs whenever the comparison fails.
\* Variant: the item is re-queued before the comparison.
RequeuesAlways(bk, status) == 1

\* Variant: the item is re-queued only when the lifecycle state differs.
RequeuesOnStateChange(bk, status) ==
    IF status.state = bk.status.state THEN 0 ELSE 1

Requeues(bk, status) == IF status = bk.status THEN 0 ELSE 1

(***************************************************************************)
(* Handle, lines 317-330: the notification of a state change.  Warning     *)
(* with the message when the new state is Failed, Normal otherwise.        *)
(***************************************************************************)
\* Variant: every state change is notified as Normal.
NotificationAlwaysNormal(bk, status) ==
    IF bk.status.state # status.state
    THEN <<[class  |-> "Normal",
            reason |-> "StateChange",
            from   |-> bk.status.state,
            to     |-> status.state,
            msg    |-> ""]>>
    ELSE <<>>

Notification(bk, status) ==
    IF bk.status.state # status.state
    THEN <<[class  |-> IF status.state = "Failed" THEN "Warning" ELSE "Normal",
            reason |-> "StateChange",
            from   |-> bk.status.state,
            to     |-> status.state,
            msg    |-> IF status.state = "Failed" THEN status.msg ELSE ""]>>
    ELSE <<>>

(***************************************************************************)
(* Handle, lines 301 and 318-319: the Time of the status.  Times are       *)
(* told apart by where they come from: "prior" is b.Status.Time as         *)
(* fetched, "handler" the Time the state handler returned, "now"           *)
(* meta.Now().  Line 301 puts "prior" in the place of "handler" before the *)
(* comparison, which therefore does not see the Time.                      *)
(***************************************************************************)
\* Variant: the Time the state handler returned is kept.
StatusTimeOfHandler(bk, status) ==
    LET assigned == "handler"
    IN IF bk.status.state # status.state THEN "now" ELSE assigned

StatusTime(bk, status) ==
    LET assigned == "prior"
    IN IF bk.status.state # status.state THEN "now" ELSE assigned

\* Handle from the candidate status on, l being the task that has it.
Decide(t, l0, status) ==
    LET l == [l0 EXCEPT !.candState = status.state, !.owned = l0.b.owner,
                        !.nRequeue = @ + Requeues(l0.b, status)]
        d == StatusDecision(l.b, status)
    IN \/ /\ d = "noop"
          /\ Step(t, Returned(l, "noop", "nil"))
          /\ holder' = Unlocked(t)
       \/ /\ d = "illegal"
          /\ Step(t, Returned(l, "transit", "Transition"))
          /\ holder' = Unlocked(t)
       \/ /\ d = "write"
          /\ Step(t, [l EXCEPT !.b.status = status, !.att = 0, !.pc = "u_get",
                                !.events = @ \o Notification(l0.b, status),
                                !.time = StatusTime(l0.b, status)])
          /\ UNCHANGED holder

\* processArangoBackup and the rest of Handle up to the status write.
HandleProcess(t) ==
    /\ loc[t].pc = "process"
    /\ Running
    /\ LET l == [loc[t] EXCEPT !.dispatched = TRUE] IN
       \/ /\ ~Validate(loc[t].b)
          /\ Decide(t, loc[t], createFailedState(loc[t].b.status))
          /\ UNCHANGED faults
       \/ /\ Validate(l.b)
          /\ l.b.status.state \notin stateHolders
          /\ Step(t, Returned(l, "unsupported", "Unsupported"))
          /\ holder' = Unlocked(t)
          /\ UNCHANGED faults
       \/ /\ Validate(l.b)
          /\ l.b.status.state \in stateHolders
          /\ CanFail
          /\ faults' = Consume
          /\ Step(t, Returned(l, "process", "Upstream"))
          /\ holder' = Unlocked(t)
       \/ /\ Validate(l.b)
          /\ l.b.status.state \in stateHolders
          /\ \E c \in Candidates(l.b) : Decide(t, l, c)
          /\ UNCHANGED faults
    /\ UNCHANGED <<store, runVars, created, regVars>>

(***************************************************************************)
(* handler.updateBackupStatus: utils.Retry around Get + UpdateStatus.      *)
(***************************************************************************)
\* utils.Retry: another attempt follows a failed one while fewer than
\* RetryAttempts have been made.
RetryAgain(n) == n < RetryAttempts

\* Task t, being l, after a failed attempt.
AttemptFailed(t, l0, e) ==
    LET l == [l0 EXCEPT !.lastErr = e, !.fresh = NoRes, !.staleU = FALSE] IN
    IF RetryAgain(l.att)
    THEN /\ Step(t, [l EXCEPT !.pc = "u_get"])
         /\ UNCHANGED holder
    ELSE /\ Step(t, Returned(l, "update", e))
         /\ holder' = Unlocked(t)

UpdGet(t) ==
    /\ loc[t].pc = "u_get"
    /\ Running
    /\ LET l == [loc[t] EXCEPT !.att = @ + 1] IN
       \/ /\ CanFail
          /\ faults' = Consume
          /\ AttemptFailed(t, l, "Upstream")
       \/ /\ store[l.item] = NoRes
          /\ AttemptFailed(t, l, "NotFound")
          /\ UNCHANGED faults
       \/ /\ store[l.item] # NoRes
          /\ Step(t, [l EXCEPT !.fresh = store[l.item], !.pc = "u_put"])
          /\ UNCHANGED <<faults, holder>>
    /\ UNCHANGED <<store, runVars, created, regVars>>

\* backup.Status = b.Status: the object handed to UpdateStatus.
\* Variant: the caller's own copy is written back whole.
StatusWriteObjectOwnCopy(fetchedCopy, own) == own

StatusWriteObject(fetchedCopy, own) == [fetchedCopy EXCEPT !.status = own.status]

UpdPut(t) ==
    /\ loc[t].pc = "u_put"
    /\ Running
    /\ LET l == [loc[t] EXCEPT !.nStatus = @ + 1]
           e == WriteError(l.item, l.staleU)
       IN \/ /\ CanFail
             /\ faults' = Consume
             /\ AttemptFailed(t, l, "Upstream")
             /\ UNCHANGED store
          \/ /\ e # "nil"
             /\ AttemptFailed(t, l, e)
             /\ UNCHANGED <<store, faults>>
          \/ /\ e = "nil"
             /\ store' = [store EXCEPT ![l.item] = StatusWriteObject(l.fresh, l.b)]
             /\ IF t = Refresher
                THEN /\ StepWrite(t, [l EXCEPT !.pc = "r_backup", !.item = NoName,
                                               !.b = NoRes, !.fresh = NoRes, !.att = 0,
                                               !.lastErr = ""],
                                  l.item)
                     /\ UNCHANGED holder
                ELSE /\ StepWrite(t, Returned(l, "update", "nil"), l.item)
                     /\ holder' = Unlocked(t)
             /\ UNCHANGED faults
    /\ UNCHANGED <<runVars, created, regVars>>

(***************************************************************************)
(* The Periodic Refresher: handler.refresh, refreshDeployment,             *)
(* refreshDeploymentBackup.                                                *)
(***************************************************************************)
\* The loop of refresh(): scan the next deployment or return nil.
\* Variant: the scan takes up the list at its end.
ScanNextFromLast(l, ds) ==
    IF ds = <<>>
    THEN Returned(l, "refresh", "nil")
    ELSE [l EXCEPT !.deps = <<ds[Len(ds)]>>, !.key = MutexKey(Namespace, ds[Len(ds)]),
                   !.mtx = NoMutex, !.listed = {}, !.phys = {}, !.pc = "gm_enter"]

ScanNext(l, ds) ==
    IF ds = <<>>
    THEN Returned(l, "refresh", "nil")
    ELSE [l EXCEPT !.deps = ds, !.key = MutexKey(Namespace, Head(ds)),
                   !.mtx = NoMutex, !.listed = {}, !.phys = {}, !.pc = "gm_enter"]

\* A tick: refresh() lists the deployments.
RefreshStart(t) ==
    /\ t = Refresher /\ t \in enabled
    /\ loc[t].pc = "idle"
    /\ Running
    /\ started < MaxInvocations
    /\ started' = started + 1
    /\ \/ /\ CanFail
          /\ faults' = Consume
          /\ Step(t, Returned(loc[t], "refresh", "Upstream"))
       \/ /\ Step(t, ScanNext(loc[t], DeploymentList))
          /\ UNCHANGED faults
    /\ UNCHANGED <<store, envVars, created, regVars, holder>>

\* What refreshDeploymentBackup reads of the listed resources.
Snapshot(st) ==
    {[download |-> st[n].download, backup |-> st[n].status.backup] :
        n \in {m \in Names : st[m] # NoRes}}

\* The client of the deployment is built and the tracked resources are listed.
RefreshList(t) ==
    /\ loc[t].pc = "r_list"
    /\ Running
    /\ \/ /\ CanFail
          /\ faults' = Consume
          /\ Step(t, Returned(loc[t], "refresh", "Upstream"))
          /\ holder' = Unlocked(t)
       \/ /\ Step(t, [loc[t] EXCEPT !.listed = Snapshot(store), !.pc = "r_phys"])
          /\ UNCHANGED <<faults, holder>>
    /\ UNCHANGED <<store, runVars, created, regVars>>

\* client.List(): the physical backups the driver reports.
RefreshPhys(t) ==
    /\ loc[t].pc = "r_phys"
    /\ Running
    /\ \/ /\ CanFail
          /\ faults' = Consume
          /\ Step(t, Returned(loc[t], "refresh", "Upstream"))
          /\ holder' = Unlocked(t)
       \/ /\ Step(t, [loc[t] EXCEPT !.phys = physical[Head(loc[t].deps)],
                                    !.pc = "r_backup"])
          /\ UNCHANGED <<faults, holder>>
    /\ UNCHANGED <<store, runVars, created, regVars>>

\* The matching loop of refreshDeploymentBackup over the listed resources.
Matches(listed, id) ==
    \E bk \in listed :
        \/ bk.download # NoId /\ bk.download = id
        \/ bk.backup # NoId /\ bk.backup = id

\* The object handed to Create.
NewBackup(dep, id) ==
    [dep |-> dep, download |-> NoId, fin |-> FALSE, owner |-> FALSE, del |-> FALSE,
     status |-> EmptyStatus, origin |-> <<dep, id>>]

\* The status assigned after Create.
ImportedStatus(id) ==
    [state |-> "Ready", backup |-> id, imported |-> TRUE, available |-> TRUE, msg |-> ""]

\* One pass of the loop over existingBackups, up to the Create call; with
\* the loop finished, refreshDeployment returns and refresh() goes on.
RefreshBackup(t) ==
    /\ loc[t].pc = "r_backup"
    /\ Running
    /\ \/ /\ loc[t].phys = {}
          /\ holder' = Unlocked(t)
          /\ Step(t, ScanNext(loc[t], Tail(loc[t].deps)))
          /\ UNCHANGED <<store, faults, created>>
       \/ \E id \in loc[t].phys :
            LET l == [loc[t] EXCEPT !.phys = @ \ {id}]
                d == Head(l.deps)
                n == NumUser + created + 1
            IN \/ /\ Matches(l.listed, id)
                  /\ Step(t, l)
                  /\ UNCHANGED <<store, faults, created, holder>>
               \/ /\ ~Matches(l.listed, id)
                  /\ CanFail
                  /\ faults' = Consume
                  /\ Step(t, Returned(l, "refresh", "Upstream"))
                  /\ holder' = Unlocked(t)
                  /\ UNCHANGED <<store, created>>
               \/ /\ ~Matches(l.listed, id)
                  /\ created >= MaxCreated
                  /\ Step(t, Returned(l, "refresh", "Upstream"))
                  /\ holder' = Unlocked(t)
                  /\ UNCHANGED <<store, faults, created>>
               \/ /\ ~Matches(l.listed, id)
                  /\ created < MaxCreated
                  /\ store' = [store EXCEPT ![n] = NewBackup(d, id)]
                  /\ created' = created + 1
                  /\ Step(t, [l EXCEPT !.item = n,
                                       !.b = [NewBackup(d, id) EXCEPT
                                                !.status = ImportedStatus(id)],
                                       !.att = 0, !.pc = "u_get"])
                  /\ UNCHANGED <<faults, holder>>
    /\ UNCHANGED <<runVars, regVars>>

(***************************************************************************)
(* Environment.                                                            *)
(***************************************************************************)
\* A delete request: the store removes a resource without finalizer and
\* puts the deletion marker on one that has it.
UserDelete(r) ==
    /\ Running
    /\ store[r] # NoRes
    /\ ~store[r].del
    /\ store' = [store EXCEPT ![r] = IF store[r].fin THEN [@ EXCEPT !.del = TRUE] ELSE NoRes]
    /\ loc' = [u \in Tasks |-> Staled(loc[u], r)]
    /\ UNCHANGED <<faults, runVars, created, regVars, holder>>

\* An upstream call of a task that holds a deployment mutex never returns:
\* the task stays where it is, the mutex locked, for good.
Hang(t) ==
    /\ Running
    /\ loc[t].pc \in {"owner_get", "owner_upd", "process", "u_get", "u_put",
                      "r_list", "r_phys", "r_backup"}
    /\ holder[loc[t].mtx] = t
    /\ \A u \in Tasks : loc[u].pc # "hung"
    /\ Step(t, [loc[t] EXCEPT !.pc = "hung"])
    /\ UNCHANGED <<store, faults, runVars, created, regVars, holder>>

\* The invocation has returned; the task waits for the next item or tick.
TaskReturn(t) ==
    /\ loc[t].pc = "done"
    /\ Step(t, Idle)
    /\ UNCHANGED <<store, faults, runVars, created, regVars, holder>>

\* The same, the task remembering the item and the outcome of the invocation
\* for the next one.
TaskReturnRecord(t) ==
    /\ loc[t].pc = "done"
    /\ Step(t, [Idle EXCEPT !.prev = [item |-> loc[t].item, path |-> loc[t].ret.path,
                                      owned |-> loc[t].owned]])
    /\ UNCHANGED <<store, faults, runVars, created, regVars, holder>>

Next ==
    \/ \E t \in Tasks : TaskReturn(t)
    \/ \E t \in Tasks : HandleGet(t)
    \/ \E t \in Tasks : HandleFinalize(t)
    \/ \E t \in Tasks : HandleAddFinalizer(t)
    \/ \E t \in Tasks : GmEnter(t)
    \/ \E t \in Tasks : GmExit(t)
    \/ \E t \in Tasks : MutexLock(t)
    \/ \E t \in Tasks : HandleOwnerGet(t)
    \/ \E t \in Tasks : HandleOwnerUpdate(t)
    \/ \E t \in Tasks : HandleProcess(t)
    \/ \E t \in Tasks : UpdGet(t)
    \/ \E t \in Tasks : UpdPut(t)
    \/ \E t \in Tasks : RefreshStart(t)
    \/ \E t \in Tasks : RefreshList(t)
    \/ \E t \in Tasks : RefreshPhys(t)
    \/ \E t \in Tasks : RefreshBackup(t)
    \/ \E r \in Names : UserDelete(r)

\* All tasks run concurrently; few upstream calls fail.
Spec == Init /\ [][Next]_vars

(***************************************************************************)
(* One task runs alone, invocation after invocation, and any upstream call *)
(* may fail, any number of times.                                          *)
(***************************************************************************)
InitSolo ==
    /\ InitStore
    /\ InitTasks
    /\ faults = Unlimited
    /\ \E t \in Tasks : enabled = {t}

NextSolo ==
    \/ \E t \in Tasks : TaskReturnRecord(t)
    \/ \E t \in Tasks : HandleGet(t)
    \/ \E t \in Tasks : HandleFinalize(t)
    \/ \E t \in Tasks : HandleAddFinalizer(t)
    \/ \E t \in Tasks : GmEnter(t)
    \/ \E t \in Tasks : GmExit(t)
    \/ \E t \in Tasks : MutexLock(t)
    \/ \E t \in Tasks : HandleOwnerGet(t)
    \/ \E t \in Tasks : HandleOwnerUpdate(t)
    \/ \E t \in Tasks : HandleProcess(t)
    \/ \E t \in Tasks : UpdGet(t)
    \/ \E t \in Tasks : UpdPut(t)
    \/ \E t \in Tasks : RefreshStart(t)
    \/ \E t \in Tasks : RefreshList(t)
    \/ \E t \in Tasks : RefreshPhys(t)
    \/ \E t \in Tasks : RefreshBackup(t)
    \/ \E r \in Names : UserDelete(r)

SpecSolo == InitSolo /\ [][NextSolo]_vars

(***************************************************************************)
(* All tasks run concurrently and one upstream call made under a           *)
(* deployment mutex may hang forever.                                      *)
(***************************************************************************)
NextHang ==
    \/ \E t \in Tasks : TaskReturn(t)
    \/ \E t \in Tasks : HandleGet(t)
    \/ \E t \in Tasks : HandleFinalize(t)
    \/ \E t \in Tasks : HandleAddFinalizer(t)
    \/ \E t \in Tasks : GmEnter(t)
    \/ \E t \in Tasks : GmExit(t)
    \/ \E t \in Tasks : MutexLock(t)
    \/ \E t \in Tasks : HandleOwnerGet(t)
    \/ \E t \in Tasks : HandleOwnerUpdate(t)
    \/ \E t \in Tasks : HandleProcess(t)
    \/ \E t \in Tasks : UpdGet(t)
    \/ \E t \in Tasks : UpdPut(t)
    \/ \E t \in Tasks : RefreshStart(t)
    \/ \E t \in Tasks : RefreshList(t)
    \/ \E t \in Tasks : RefreshPhys(t)
    \/ \E t \in Tasks : RefreshBackup(t)
    \/ \E r \in Names : UserDelete(r)
    \/ \E t \in Tasks : Hang(t)

SpecHang == Init /\ [][NextHang]_vars

(***************************************************************************)
(* Fair scheduling with upstream calls that return: a task that can take   *)
(* a step of its invocation, or return, eventually does.  The arrival of   *)
(* items and ticks is left to the environment.                             *)
(***************************************************************************)
Progress(t) ==
    \/ TaskReturn(t)
    \/ HandleFinalize(t)
    \/ HandleAddFinalizer(t)
    \/ GmEnter(t)
    \/ GmExit(t)
    \/ MutexLock(t)
    \/ HandleOwnerGet(t)
    \/ HandleOwnerUpdate(t)
    \/ HandleProcess(t)
    \/ UpdGet(t)
    \/ UpdPut(t)
    \/ RefreshList(t)
    \/ RefreshPhys(t)
    \/ RefreshBackup(t)

\* The store holds fresh resources of the first deployment.
InitFair ==
    /\ Init
    /\ \A n \in UserNames : store[n] = UserResource(DeploymentList[1], NoId, "")

SpecFair == InitFair /\ [][Next]_vars /\ \A t \in Tasks : WF_vars(Progress(t))

(***************************************************************************)
(* Properties.                                                             *)
(***************************************************************************)
\* Task t is inside the section its deployment mutex guards.
InLocked(t) ==
    loc[t].pc \in {"owner_get", "owner_upd", "process", "u_get", "u_put",
                   "r_list", "r_phys", "r_backup"}

HoldsMutex(t) == loc[t].mtx # NoMutex /\ holder[loc[t].mtx] = t

\* Task t issues a write to the store in this step: Update, UpdateStatus, Create.
IssuesUpdate(t) == loc'[t].nUpdate > loc[t].nUpdate
IssuesStatus(t) == loc'[t].nStatus > loc[t].nStatus
IssuesCreate(t) == t = Refresher /\ created' > created

\* The invocation of t has just returned on the given path.
ReturnedOn(t, path) == loc[t].pc = "done" /\ loc[t].ret.path = path

C2_StoredMovesLegal ==
    [][\A t \in Handlers, r \in Names :
          (IssuesStatus(t) /\ loc[t].item = r /\ store[r] # NoRes /\ store'[r] # NoRes)
             => Transit(store[r].status.state, store'[r].status.state)]_vars

\* C3: an invocation whose candidate state is not a legal move from the
\* fetched state returns the transition error and issues no status write;
\* a status update is only ever under way for a legal move.
C3_IllegalTransitionNoWrite ==
    \A t \in Handlers :
        /\ (loc[t].pc = "done" /\ loc[t].ret.path \in {"noop", "transit", "update"}
              /\ ~Transit(loc[t].fetchedState, loc[t].candState))
             => (loc[t].ret.err = "Transition" /\ loc[t].nStatus = 0)
        /\ loc[t].pc \in {"u_get", "u_put"}
             => Transit(loc[t].fetchedState, loc[t].candState)

\* C3 witness: an invocation has returned the transition error for an illegal
\* pair, after re-queueing the item and without a status write.
C3_Witness ==
    \E t \in Handlers :
        /\ ReturnedOn(t, "transit")
        /\ ~Transit(loc[t].fetchedState, loc[t].candState)
        /\ loc[t].nStatus = 0

\* C4 (as claimed): every Create, Update and UpdateStatus is issued by a
\* task that holds the mutex of the resource's deployment.
C4_WritesUnderMutex ==
    [][\A t \in Tasks :
          (IssuesUpdate(t) \/ IssuesStatus(t) \/ IssuesCreate(t)) => HoldsMutex(t)]_vars

\* C5: an invocation whose fetched resource carries the deletion marker is
\* on the finalize path and nowhere else; it has not consulted the dispatch
\* table, issued no status write and not re-queued the item, also when it
\* has returned.
C5_DeletionGoesToFinalize ==
    \A t \in Handlers :
        /\ (loc[t].b # NoRes /\ loc[t].b.del) =>
              /\ loc[t].pc = "finalize"
              /\ ~loc[t].dispatched /\ loc[t].nStatus = 0 /\ loc[t].nRequeue = 0
        /\ ReturnedOn(t, "finalize") =>
              /\ ~loc[t].dispatched /\ loc[t].nStatus = 0 /\ loc[t].nRequeue = 0
              /\ loc[t].nUpdate = 1

\* C5 witness: a resource in state Failed with the deletion marker has been
\* handled: the invocation returned nil from the finalize path.
C5_Witness ==
    \E t \in Handlers :
        /\ ReturnedOn(t, "finalize")
        /\ loc[t].ret.err = "nil"
        /\ loc[t].fetchedState = "Failed"
        /\ store[loc[t].item] = NoRes

\* C6 (as claimed): the store never holds two resources the Refresher created
\* for the same physical backup of a deployment.
C6_OneResourcePerPhysicalBackup ==
    \A n1, n2 \in Names :
        (store[n1] # NoRes /\ store[n2] # NoRes /\ store[n1].origin # NoOrigin
            /\ store[n1].origin = store[n2].origin) => n1 = n2

\* C7 (as claimed): a resource the Refresher created is stored in no other
\* status than Ready, imported, available, with the physical backup's ID.
C7_CreatedIsReadyImported ==
    \A n \in Names :
        (store[n] # NoRes /\ store[n].origin # NoOrigin)
            => store[n].status = ImportedStatus(store[n].origin[2])

\* C8 (as claimed): the second of two successive Handle calls on a resource
\* whose candidate status equals its current status issues no Update, no
\* UpdateStatus and no re-queue, whatever the first call found (finalizer
\* absent, owner link absent).
C8_SecondCallNoWrites ==
    \A t \in Handlers :
        (ReturnedOn(t, "noop") /\ loc[t].prev.item = loc[t].item
            /\ loc[t].prev.path \in {"noop", "addfin"})
           => (loc[t].nUpdate = 0 /\ loc[t].nStatus = 0 /\ loc[t].nRequeue = 0)

\* C8 (amended): when the first call reached the comparison and found the
\* statuses equal with the owner link attached, the second call issues no
\* write and no re-queue; after any other first call (finalizer just added,
\* deployment lookup failed) the second call issues at most the one Update
\* that attaches the owner link, no status write and no re-queue.
C8_SecondCallIdempotent ==
    \A t \in Handlers :
        (ReturnedOn(t, "noop") /\ loc[t].prev.item = loc[t].item
            /\ loc[t].prev.path \in {"noop", "addfin"})
           => /\ loc[t].nStatus = 0 /\ loc[t].nRequeue = 0
              /\ loc[t].nUpdate <= 1
              /\ (loc[t].prev.path = "noop" /\ loc[t].prev.owned) => loc[t].nUpdate = 0

\* C8 witness: a second call in succession has returned from the comparison
\* after a first call that returned from it with the owner link attached.
C8_Witness ==
    \E t \in Handlers :
        /\ ReturnedOn(t, "noop")
        /\ loc[t].prev.item = loc[t].item
        /\ loc[t].prev.path = "noop" /\ loc[t].prev.owned
        /\ store[loc[t].item] # NoRes

\* C9: updateBackupStatus makes at most 25 attempts, each a fetch followed by
\* at most one status write; it goes on only while fewer than 25 were made;
\* it returns an error only after the 25th attempt, and that error is the
\* error of the last attempt.
C9_BoundedRetry ==
    \A t \in Tasks :
        /\ loc[t].att <= 25
        /\ loc[t].pc = "u_get" => loc[t].att < 25
        /\ loc[t].pc \in {"u_get", "u_put"} => loc[t].nStatus <= loc[t].att
        /\ ReturnedOn(t, "update") => loc[t].nStatus <= loc[t].att
        /\ (ReturnedOn(t, "update") /\ loc[t].ret.err # "nil")
              => (loc[t].att = 25 /\ loc[t].ret.err = loc[t].lastErr)

\* C9 witness: a status update has succeeded on its 25th attempt, after 24
\* attempts that failed.
C9_Witness ==
    \E t \in Handlers :
        /\ ReturnedOn(t, "update")
        /\ loc[t].ret.err = "nil"
        /\ loc[t].att = 25
        /\ loc[t].lastErr # ""

\* C10: a status write that lands changes nothing but the status of the one
\* stored resource: what it leaves in the store is the stored resource with
\* its status replaced by the caller's status, and every other resource is
\* as it was.
C10_StatusWriteFrame ==
    [][\A t \in Tasks :
          IssuesStatus(t) =>
             \A r \in Names :
                store'[r] # store[r] =>
                   /\ r = loc[t].item
                   /\ store[r] # NoRes
                   /\ store'[r] = [store[r] EXCEPT !.status = loc[t].b.status]]_vars

\* C10 witness: a status update has succeeded on a resource that got its
\* deletion marker from another writer after the caller fetched its own
\* copy; the marker is still stored, next to the caller's new status.
C10_Witness ==
    \E t \in Handlers :
        /\ ReturnedOn(t, "update")
        /\ loc[t].ret.err = "nil"
        /\ store[loc[t].item] # NoRes
        /\ store[loc[t].item].del
        /\ store[loc[t].item].fin
        /\ store[loc[t].item].status.state = loc[t].candState
        /\ loc[t].candState # loc[t].fetchedState

\* C11: an invocation that fetched a resource without deletion marker and
\* without the finalizer is at the finalizer attachment and nowhere else: it
\* has no mutex, has not dispatched, written the status or re-queued; it
\* returns after exactly one Update, and an Update that lands there changes
\* nothing but the finalizer.  State processing runs only on a fetched
\* resource that carries the finalizer.
C11_FinalizerOnly ==
    /\ [](\A t \in Handlers :
            /\ (loc[t].b # NoRes /\ ~loc[t].b.del /\ ~loc[t].b.fin) =>
                  /\ loc[t].pc = "addfin"
                  /\ loc[t].mtx = NoMutex /\ hlock # t
                  /\ \A m \in DOMAIN holder : holder[m] # t
                  /\ loc[t].nUpdate = 0 /\ loc[t].nStatus = 0 /\ loc[t].nRequeue = 0
                  /\ ~loc[t].dispatched
            /\ ReturnedOn(t, "addfin") =>
                  /\ loc[t].nUpdate = 1 /\ loc[t].nStatus = 0 /\ loc[t].nRequeue = 0
                  /\ ~loc[t].dispatched
                  /\ \A m \in DOMAIN holder : holder[m] # t
            /\ loc[t].pc \in {"owner_get", "owner_upd", "process"} =>
                  (loc[t].b.fin /\ ~loc[t].b.del)
            /\ (loc[t].pc = "done" /\ loc[t].dispatched) => loc[t].ret.path # "addfin")
    /\ [][\A t \in Handlers :
            (loc[t].pc = "addfin" /\ loc'[t].pc = "done") =>
                /\ holder' = holder /\ hlock' = hlock
                /\ \A r \in Names :
                     store'[r] # store[r] =>
                        /\ r = loc[t].item
                        /\ store[r] # NoRes
                        /\ store'[r] = [store[r] EXCEPT !.fin = TRUE]]_vars

\* C11 witness: an invocation has returned nil after the one Update that
\* attached the finalizer; the resource is stored with it, owner link and
\* status untouched.
C11_Witness ==
    \E t \in Handlers :
        /\ ReturnedOn(t, "addfin")
        /\ loc[t].ret.err = "nil"
        /\ loc[t].nUpdate = 1
        /\ store[loc[t].item] # NoRes
        /\ store[loc[t].item].fin
        /\ ~store[loc[t].item].owner
        /\ store[loc[t].item].status = EmptyStatus

\* C12 (as claimed): no failure of the owner-link step ends the invocation:
\* an invocation that entered the step returns only after validation and
\* state dispatch, never with the error of the step.
C12_OwnerFailureSwallowed ==
    \A t \in Handlers :
        loc[t].pc = "done" => loc[t].ret.path # "owner"

\* C13 (as claimed): a stored resource that has a backup descriptor keeps its
\* descriptor ID for as long as it is stored, whatever is written.
C13_DescriptorImmutable ==
    [][\A r \in Names :
          (store[r] # NoRes /\ store'[r] # NoRes /\ store[r].status.backup # NoId)
             => store'[r].status.backup = store[r].status.backup]_vars

\* C14 (as claimed): when a task hangs forever holding the mutex of a
\* deployment, what waits behind it has work for that deployment only: no
\* task that still has another deployment to scan is blocked on that mutex.
C14_HangStallsOnlyItsDeployment ==
    \A h, t \in Tasks :
        (loc[h].pc = "hung" /\ loc[t].pc = "lock" /\ loc[t].mtx = loc[h].mtx)
           => \A i \in DOMAIN loc[t].deps :
                 MutexKey(Namespace, loc[t].deps[i]) = loc[h].key

\* C15: a refresh tick that returns an error holds no deployment mutex and
\* not the registry guard, and nothing of its scan is left; after the return
\* nothing is written or created until the next tick; the scheduler goes on
\* to the next tick, which lists the deployments again and starts with the
\* first one, with nothing listed or read yet.
C15_FailedTickAbandoned ==
    /\ []((loc[Refresher].pc = "done" /\ loc[Refresher].ret.err # "nil") =>
            /\ \A m \in DOMAIN holder : holder[m] # Refresher
            /\ hlock # Refresher
            /\ loc[Refresher].mtx = NoMutex
            /\ loc[Refresher].deps = <<>> /\ loc[Refresher].phys = {}
            /\ loc[Refresher].listed = {})
    /\ [][/\ (Refresher \in enabled /\ loc[Refresher].pc = "done") =>
                /\ store' = store /\ created' = created
                /\ loc'[Refresher].pc = "idle"
          /\ (loc[Refresher].pc = "idle" /\ loc'[Refresher].pc # "idle") =>
                \/ loc'[Refresher].pc = "done"
                \/ /\ loc'[Refresher].pc = "gm_enter"
                   /\ loc'[Refresher].deps = DeploymentList
                   /\ loc'[Refresher].key = MutexKey(Namespace, DeploymentList[1])
                   /\ loc'[Refresher].mtx = NoMutex
                   /\ loc'[Refresher].listed = {} /\ loc'[Refresher].phys = {}]_vars

\* C15 witness: the tick after a tick that created a resource and then gave
\* up on its status write: it has listed the deployments again and is about
\* to scan the first one, no mutex being held.
C15_Witness ==
    /\ loc[Refresher].pc = "gm_enter"
    /\ loc[Refresher].prev.path = "update"
    /\ loc[Refresher].prev.item \in GenNames
    /\ loc[Refresher].deps = DeploymentList
    /\ \A m \in DOMAIN holder : holder[m] = None
    /\ created = 1

\* The invocation of t has passed the legality check: its status is being
\* written or the write has ended.
PastTransit(t) == loc[t].pc \in {"u_get", "u_put"} \/ ReturnedOn(t, "update")

\* C16: an invocation has emitted one state-change notification if its
\* candidate state differs from the fetched state and the move is legal, and
\* none otherwise; the notification names the old and the new state, is a
\* Warning with the failure message when the new state is Failed and is
\* Normal otherwise.
C16_StateChangeNotification ==
    \A t \in Handlers :
        /\ Len(loc[t].events) =
              IF PastTransit(t) /\ loc[t].candState # loc[t].fetchedState THEN 1 ELSE 0
        /\ (loc[t].pc = "done" /\ loc[t].ret.path \in {"noop", "transit", "update"}) =>
              (Len(loc[t].events) = 1 <=>
                  (loc[t].candState # loc[t].fetchedState
                     /\ Transit(loc[t].fetchedState, loc[t].candState)))
        /\ \A i \in DOMAIN loc[t].events :
              LET e == loc[t].events[i] IN
              /\ e.reason = "StateChange"
              /\ e.from = loc[t].fetchedState /\ e.to = loc[t].candState
              /\ e.class = IF loc[t].candState = "Failed" THEN "Warning" ELSE "Normal"
              /\ (loc[t].candState = "Failed" /\ loc[t].b # NoRes) => e.msg = loc[t].b.status.msg
              /\ loc[t].candState = "Failed" => e.msg # ""

\* C16 witness: an invocation has moved a resource from Pending to Failed and
\* has emitted the one Warning for it.
C16_Witness ==
    \E t \in Handlers :
        /\ ReturnedOn(t, "update")
        /\ loc[t].ret.err = "nil"
        /\ loc[t].fetchedState = "Pending" /\ loc[t].candState = "Failed"
        /\ loc[t].events = <<[class |-> "Warning", reason |-> "StateChange",
                              from |-> "Pending", to |-> "Failed", msg |-> "err"]>>

\* C17: the status an invocation hands to the status update carries the
\* fetched resource's Time when the candidate state equals the fetched
\* state, and a fresh Time when the state changes; it never carries the Time
\* the state handler returned.
C17_StatusTime ==
    \A t \in Handlers :
        /\ loc[t].time # "handler"
        /\ PastTransit(t) =>
              loc[t].time = IF loc[t].candState = loc[t].fetchedState THEN "prior" ELSE "now"
        /\ ~PastTransit(t) => loc[t].time = ""

\* C17 witness: a status whose availability changed while its state stayed
\* Ready has been persisted with the prior Time.
C17_Witness ==
    \E t \in Handlers :
        /\ ReturnedOn(t, "update")
        /\ loc[t].ret.err = "nil"
        /\ loc[t].fetchedState = "Ready" /\ loc[t].candState = "Ready"
        /\ loc[t].time = "prior"
        /\ store[loc[t].item] # NoRes
        /\ ~store[loc[t].item].status.available

Outside(t) == loc[t].pc \in {"idle", "done"}

\* C19: a task whose invocation has returned, on whatever path, holds no
\* deployment mutex and not the registry guard; with every task outside
\* Handle and refresh, every registered mutex and the guard are free.  The
\* Refresher, between two deployments of a scan, holds none either.
C19_MutexReleased ==
    /\ \A t \in Tasks :
          (Outside(t) \/ loc[t].pc \in {"addfin", "finalize", "gm_enter"}) =>
              /\ \A m \in DOMAIN holder : holder[m] # t
              /\ hlock # t
    /\ (\A t \in Tasks : Outside(t)) =>
          /\ \A m \in DOMAIN holder : holder[m] = None
          /\ hlock = None

\* C19 witness: a Handle invocation has returned the error of the owner-link
\* Update, which it issued under the deployment mutex; every task is outside
\* and the mutex, registered, is free.
C19_Witness ==
    \E t \in Handlers :
        /\ ReturnedOn(t, "owner")
        /\ loc[t].ret.err # "nil"
        /\ \A u \in Tasks : Outside(u)
        /\ DOMAIN locks # {}
        /\ \A m \in DOMAIN holder : holder[m] = None

\* C20: a task holds at most one deployment mutex, a task that waits for a
\* deployment mutex holds neither a mutex nor the registry guard, and the
\* guard is held only inside getDeploymentMutex; under fair scheduling every
\* task that waits for a deployment mutex eventually gets on, and every
\* invocation eventually returns.
C20_NoDeadlock ==
    /\ [](\A t \in Tasks :
            /\ Cardinality({m \in DOMAIN holder : holder[m] = t}) <= 1
            /\ loc[t].pc = "lock" =>
                  /\ hlock # t
                  /\ \A m \in DOMAIN holder : holder[m] # t
            /\ hlock = t <=> loc[t].pc = "gm_exit")
    /\ \A t \in Tasks : (loc[t].pc = "lock") ~> (loc[t].pc # "lock")
    /\ \A t \in Tasks : (loc[t].pc # "idle") ~> (loc[t].pc = "idle")

\* C20 witness: a Handle invocation waits for the deployment mutex that the
\* Refresher holds for its scan.
C20_Witness ==
    \E t \in Handlers :
        /\ loc[t].pc = "lock"
        /\ holder[loc[t].mtx] = Refresher
        /\ loc[Refresher].pc \in {"r_list", "r_phys", "r_backup", "u_get", "u_put"}
====
